---- MODULE Spec2Model ----
(***************************************************************************)
(* Model of src-tauri/src/lib.rs of gptme-tauri: the supervisor of the     *)
(* local gptme-server sidecar (start_server, stop_server,                  *)
(* get_server_status, the startup spawn task, the output classifier tasks  *)
(* and the window-close handler, all sharing one Mutex<Option<child>>)     *)
(* and the deep-link code pipeline (handle_deep_link_urls and its three    *)
(* callers).                                                               *)
(***************************************************************************)
EXTENDS Integers, Sequences, FiniteSets, TLC

\* ------------------------------------------------------------------ bounds
MaxProcs == 2   \* backend processes spawned over a run
MaxTasks == 1   \* start_server invocations in flight at the same time
MaxOutput == 1  \* output events the backend processes emit over a run
MaxQuery == 4   \* tokens in the query string of a deep-link URL
MaxBatch == 2   \* URLs or arguments in one deep-link batch
MaxEvents == 2  \* events the plugin puts on one classifier's channel
MaxBytes == 3   \* bytes of output carried by those events, in total

\* --------------------------------------------------------------- constants
GPTME_SERVER_PORT == 5700

Procs == 1..MaxProcs

\* Option<CommandChild>::None, and "no process" in a result.
None == 0
\* Owner of the TCP port: nobody, a backend process (its id), or a program
\* that is not ours.
PortFree == 0
External == MaxProcs + 1

VARIABLES
    store,       \* ServerProcess: the Option<CommandChild> behind the mutex
    proc,        \* per backend process: "none", "alive", "killed", "dead"
    signalled,   \* per backend process: number of kill() calls on its handle
    rx,          \* per backend process: its CommandEvent channel
    classifier,  \* per backend process: "none", "running", "done"
    port,        \* who is bound to 127.0.0.1:5700
    emitted,     \* number of output events emitted so far
    probing,     \* start_server invocations past the check, before the probe
    spawning,    \* start_server invocations past the probe, before spawn()
    storing,     \* the local `child` of each invocation past spawn()
    spc,         \* position of the startup spawn task of setup(): "probe",
                 \* "spawn", "store", or ended as "started",
                 \* "port_conflict", "sidecar_panic", "spawn_failed"
    schild,      \* the startup task's local `child`
    last,        \* what the step just taken returned to its caller (or logged,
                 \* for the close handler); NoResult for every other step
    lastOk       \* history: handle stored by the last successful
                 \* start_server, None once a stop, close or termination
                 \* event has happened since

supervisor == <<store, proc, signalled, rx, classifier, port, emitted,
                probing, spawning, storing, spc, schild, last, lastOk>>

\* State of the deep-link pipeline.
VARIABLES
    caller,      \* whose batch is being handled: "setup" before the launch
                 \* check, then "none", "launch", "open_url" or
                 \* "single_instance"
    remaining,   \* items of that batch not yet looked at
    window,      \* whether get_webview_window("main") finds the window
    url,         \* the item looked at by the step just taken
    reached,     \* whether that item was passed to handle_deep_link_urls
    evals        \* the scripts window.eval was called with for that item

deeplink == <<caller, remaining, window, url, reached, evals>>

\* State of one output classifier task, event by event.
VARIABLES
    sent,        \* history: every event the plugin has put on the channel
    crx,         \* the events of the channel the task has not received yet
    seen,        \* history: the events the task has matched, in order
    log          \* the log records the task has written, in order

logger == <<sent, crx, seen, log>>

\* ---------------------------------------------------------------- results
NoStatus == [running |-> FALSE, port |-> 0, port_available |-> FALSE]

NoResult ==
    [op |-> "none", res |-> "none", pid |-> 0, val |-> 0, status |-> NoStatus]

Result(op, res, pid, val) ==
    [op |-> op, res |-> res, pid |-> pid, val |-> val, status |-> NoStatus]

\* ------------------------------------------------------------ port prober
\* TcpListener::bind(..).is_ok(); the listener is a temporary, dropped
\* before the function returns, so the probe leaves `port` as it was.
\* A probe that never finds the port taken.
port_always_available == TRUE

is_port_available == port = PortFree

\* ----------------------------------------------------------- handle store
\* The mutex is poisoned only by a panic while the guard is held; no code
\* under the guard can panic (kill() returns a Result), so every lock()
\* succeeds and each locked region is one atomic step.
\* guard.is_some()
is_some == store # None

\* ---------------------------------------------------------- status query
\* A status that reports the port as taken without probing it.
ServerStatusNoProbe ==
    [running |-> is_some,
     port |-> GPTME_SERVER_PORT,
     port_available |-> FALSE]

ServerStatus ==
    [running |-> is_some,
     port |-> GPTME_SERVER_PORT,
     port_available |-> is_port_available]

get_server_status ==
    /\ last' = [op |-> "status", res |-> "Ok", pid |-> None, val |-> 0,
                status |-> ServerStatus]
    /\ UNCHANGED <<store, proc, signalled, rx, classifier, port, emitted,
                   probing, spawning, storing, spc, schild, lastOk>>
    /\ UNCHANGED <<deeplink, logger>>

\* ------------------------------------------------------------------- kill
\* CommandChild::kill() returns a Result. On a live child the signal is
\* delivered and the child exits; on a child that has already exited the
\* call changes nothing and may return Ok or an error.
KillOutcomes(p) == IF proc[p] = "alive" THEN {TRUE} ELSE BOOLEAN

Killed(p) ==
    IF proc[p] = "alive" THEN [proc EXCEPT ![p] = "killed"] ELSE proc

\* ------------------------------------------------------------ stop_server
\* A stop_server that swallows the empty case and reports success.
stop_server_always_ok ==
    /\ IF is_some
       THEN \E ok \in KillOutcomes(store) :
              /\ store' = None
              /\ signalled' = [signalled EXCEPT ![store] = @ + 1]
              /\ proc' = Killed(store)
              /\ last' = Result("stop", IF ok THEN "Ok" ELSE "KillError",
                                store, 0)
       ELSE /\ last' = Result("stop", "Ok", None, 0)
            /\ UNCHANGED <<store, signalled, proc>>
    /\ lastOk' = None
    /\ UNCHANGED <<rx, classifier, port, emitted, probing, spawning,
                   storing, spc, schild>>
    /\ UNCHANGED <<deeplink, logger>>

\* A stop_server that puts the handle back when the signal fails.
stop_server_reinsert ==
    /\ IF is_some
       THEN \E ok \in KillOutcomes(store) :
              /\ store' = IF ok THEN None ELSE store
              /\ signalled' = [signalled EXCEPT ![store] = @ + 1]
              /\ proc' = Killed(store)
              /\ last' = Result("stop", IF ok THEN "Ok" ELSE "KillError",
                                store, 0)
       ELSE /\ last' = Result("stop", "NotRunning", None, 0)
            /\ UNCHANGED <<store, signalled, proc>>
    /\ lastOk' = None
    /\ UNCHANGED <<rx, classifier, port, emitted, probing, spawning,
                   storing, spc, schild>>
    /\ UNCHANGED <<deeplink, logger>>

stop_server ==
    /\ IF is_some
       THEN \E ok \in KillOutcomes(store) :
              /\ store' = None
              /\ signalled' = [signalled EXCEPT ![store] = @ + 1]
              /\ proc' = Killed(store)
              /\ last' = Result("stop", IF ok THEN "Ok" ELSE "KillError",
                                store, 0)
       ELSE /\ last' = Result("stop", "NotRunning", None, 0)
            /\ UNCHANGED <<store, signalled, proc>>
    /\ lastOk' = None
    /\ UNCHANGED <<rx, classifier, port, emitted, probing, spawning,
                   storing, spc, schild>>
    /\ UNCHANGED <<deeplink, logger>>

\* ----------------------------------------------------------- start_server
\* Invocations of start_server that have not returned yet.
InFlight == probing + spawning + Cardinality(storing)

\* Lines 61-66: the already-running check, in its own lock scope.
start_server_check ==
    /\ InFlight < MaxTasks
    /\ IF is_some
       THEN /\ last' = Result("start", "AlreadyRunning", None, 0)
            /\ UNCHANGED probing
       ELSE /\ probing' = probing + 1
            /\ last' = NoResult
    /\ UNCHANGED <<store, proc, signalled, rx, classifier, port, emitted,
                   spawning, storing, spc, schild, lastOk>>
    /\ UNCHANGED <<deeplink, logger>>

\* Lines 68-70: the port probe.
start_server_probe ==
    /\ probing > 0
    /\ probing' = probing - 1
    /\ IF ~is_port_available
       THEN /\ last' = Result("start", "PortInUse", None, 0)
            /\ UNCHANGED spawning
       ELSE /\ spawning' = spawning + 1
            /\ last' = NoResult
    /\ UNCHANGED <<store, proc, signalled, rx, classifier, port, emitted,
                   storing, spc, schild, lastOk>>
    /\ UNCHANGED <<deeplink, logger>>

\* The process id a successful spawn hands out next.
Unspawned == {p \in Procs : proc[p] = "none"}
NextPid == CHOOSE p \in Unspawned : \A q \in Unspawned : p <= q

\* A spawn step that marks the cell as taken before it spawns and leaves
\* the mark behind when the spawn fails.
start_server_spawn_marking ==
    /\ spawning > 0
    /\ spawning' = spawning - 1
    /\ \/ /\ last' = Result("start", "SpawnError", None, 0)
          /\ Unspawned # {}
          /\ store' = NextPid
          /\ UNCHANGED <<proc, storing>>
       \/ /\ Unspawned # {}
          /\ proc' = [proc EXCEPT ![NextPid] = "alive"]
          /\ storing' = storing \cup {NextPid}
          /\ last' = NoResult
          /\ UNCHANGED store
    /\ UNCHANGED <<signalled, rx, classifier, port, emitted, probing,
                   spc, schild, lastOk>>
    /\ UNCHANGED <<deeplink, logger>>

\* Lines 84-92: sidecar() and spawn(), either of which can fail.
start_server_spawn ==
    /\ spawning > 0
    /\ spawning' = spawning - 1
    /\ \/ /\ last' = Result("start", "SidecarError", None, 0)
          /\ UNCHANGED <<proc, storing>>
       \/ /\ last' = Result("start", "SpawnError", None, 0)
          /\ UNCHANGED <<proc, storing>>
       \/ /\ Unspawned # {}
          /\ proc' = [proc EXCEPT ![NextPid] = "alive"]
          /\ storing' = storing \cup {NextPid}
          /\ last' = NoResult
    /\ UNCHANGED <<store, signalled, rx, classifier, port, emitted, probing,
                   spc, schild, lastOk>>
    /\ UNCHANGED <<deeplink, logger>>

\* A set-on-spawn that loses the child instead of storing it.
SetOnSpawnDropped(c) == None

\* *guard = Some(child)
SetOnSpawn(c) == c

\* Lines 99-147: store the child, spawn the classifier task, return the port.
start_server_store(c) ==
    /\ c \in storing
    /\ storing' = storing \ {c}
    /\ store' = SetOnSpawn(c)
    /\ classifier' = [classifier EXCEPT ![c] = "running"]
    /\ last' = Result("start", "Ok", c, GPTME_SERVER_PORT)
    /\ lastOk' = c
    /\ UNCHANGED <<proc, signalled, rx, port, emitted, probing, spawning,
                   spc, schild>>
    /\ UNCHANGED <<deeplink, logger>>

\* ----------------------------------------------------- startup spawn task
\* Lines 279-303: the probe; on a busy port the task shows the dialog and
\* returns.
startup_probe ==
    /\ spc = "probe"
    /\ spc' = IF ~is_port_available THEN "port_conflict" ELSE "spawn"
    /\ last' = NoResult
    /\ UNCHANGED <<store, proc, signalled, rx, classifier, port, emitted,
                   probing, spawning, storing, schild, lastOk>>
    /\ UNCHANGED <<deeplink, logger>>

\* Lines 318-324 and 380-382: sidecar().unwrap(), whose failure panics the
\* task (the runtime catches the panic and the application goes on), and
\* spawn(), whose failure is only logged.
startup_spawn ==
    /\ spc = "spawn"
    /\ \/ /\ spc' = "sidecar_panic"
          /\ UNCHANGED <<proc, schild>>
       \/ /\ spc' = "spawn_failed"
          /\ UNCHANGED <<proc, schild>>
       \/ /\ Unspawned # {}
          /\ proc' = [proc EXCEPT ![NextPid] = "alive"]
          /\ schild' = NextPid
          /\ spc' = "store"
    /\ last' = NoResult
    /\ UNCHANGED <<store, signalled, rx, classifier, port, emitted, probing,
                   spawning, storing, lastOk>>
    /\ UNCHANGED <<deeplink, logger>>

\* Lines 331-378: store the child and spawn the classifier task.
startup_store ==
    /\ spc = "store"
    /\ store' = SetOnSpawn(schild)
    /\ classifier' = [classifier EXCEPT ![schild] = "running"]
    /\ spc' = "started"
    /\ schild' = None
    /\ last' = NoResult
    /\ UNCHANGED <<proc, signalled, rx, port, emitted, probing, spawning,
                   storing, lastOk>>
    /\ UNCHANGED <<deeplink, logger>>

\* ------------------------------------------------------- output classifier
\* What the Terminated arm writes to the cell: *guard = None.
ClearOnTerminated(p) == None

\* A classifier that starts the backend again when it sees it terminate.
classifier_recv_restarting(p) ==
    /\ classifier[p] = "running"
    /\ rx[p] # <<>>
    /\ rx' = [rx EXCEPT ![p] = Tail(@)]
    /\ IF Head(rx[p]) = "Terminated"
       THEN /\ store' = None
            /\ classifier' = [classifier EXCEPT ![p] = "done"]
            /\ lastOk' = None
            /\ spawning' = spawning + 1
       ELSE UNCHANGED <<store, classifier, lastOk, spawning>>
    /\ last' = NoResult
    /\ UNCHANGED <<proc, signalled, port, emitted, probing, storing, spc,
                   schild>>
    /\ UNCHANGED <<deeplink, logger>>

\* One iteration of `while let Some(event) = rx.recv().await` of the task
\* that owns process p's receiver (lines 110-144 and 341-377). The Stdout,
\* Stderr and Error arms only write log records; the Terminated arm clears
\* the cell and leaves the loop.
classifier_recv(p) ==
    /\ classifier[p] = "running"
    /\ rx[p] # <<>>
    /\ rx' = [rx EXCEPT ![p] = Tail(@)]
    /\ IF Head(rx[p]) = "Terminated"
       THEN /\ store' = ClearOnTerminated(p)
            /\ classifier' = [classifier EXCEPT ![p] = "done"]
            /\ lastOk' = None
       ELSE UNCHANGED <<store, classifier, lastOk>>
    /\ last' = NoResult
    /\ UNCHANGED <<proc, signalled, port, emitted, probing, spawning,
                   storing, spc, schild>>
    /\ UNCHANGED <<deeplink, logger>>

\* ---------------------------------------------------- window-close handler
\* A close handler that signals the handle it finds but leaves it in the
\* cell.
window_close_without_take ==
    /\ IF is_some
       THEN \E ok \in KillOutcomes(store) :
              /\ signalled' = [signalled EXCEPT ![store] = @ + 1]
              /\ proc' = Killed(store)
              /\ last' = Result("close", IF ok THEN "Ok" ELSE "KillError",
                                store, 0)
              /\ UNCHANGED store
       ELSE /\ last' = Result("close", "NoProcess", None, 0)
            /\ UNCHANGED <<store, signalled, proc>>
    /\ lastOk' = None
    /\ UNCHANGED <<rx, classifier, port, emitted, probing, spawning,
                   storing, spc, schild>>
    /\ UNCHANGED <<deeplink, logger>>

\* Lines 388-414: take() the handle and kill it; the outcome is only logged.
window_close ==
    /\ IF is_some
       THEN \E ok \in KillOutcomes(store) :
              /\ store' = None
              /\ signalled' = [signalled EXCEPT ![store] = @ + 1]
              /\ proc' = Killed(store)
              /\ last' = Result("close", IF ok THEN "Ok" ELSE "KillError",
                                store, 0)
       ELSE /\ last' = Result("close", "NoProcess", None, 0)
            /\ UNCHANGED <<store, signalled, proc>>
    /\ lastOk' = None
    /\ UNCHANGED <<rx, classifier, port, emitted, probing, spawning,
                   storing, spc, schild>>
    /\ UNCHANGED <<deeplink, logger>>

\* ------------------------------------------------------------ environment
\* The backend writes a chunk to stdout or stderr, or the plugin reports an
\* error: an output event (CommandEvent::Stdout, Stderr or Error) enters the
\* channel the spawn returned.
proc_output(p) ==
    /\ proc[p] \in {"alive", "killed"}
    /\ emitted < MaxOutput
    /\ emitted' = emitted + 1
    /\ rx' = [rx EXCEPT ![p] = Append(@, "Output")]
    /\ last' = NoResult
    /\ UNCHANGED <<store, proc, signalled, classifier, port, probing,
                   spawning, storing, spc, schild, lastOk>>
    /\ UNCHANGED <<deeplink, logger>>

\* The backend binds its listening socket, some time after the spawn.
proc_bind(p) ==
    /\ proc[p] = "alive"
    /\ port = PortFree
    /\ port' = p
    /\ last' = NoResult
    /\ UNCHANGED <<store, proc, signalled, rx, classifier, emitted, probing,
                   spawning, storing, spc, schild, lastOk>>
    /\ UNCHANGED <<deeplink, logger>>

\* The backend exits (a crash, or the kill taking effect): its socket is
\* released and Terminated is the last event of its channel.
proc_exit(p) ==
    /\ proc[p] \in {"alive", "killed"}
    /\ proc' = [proc EXCEPT ![p] = "dead"]
    /\ rx' = [rx EXCEPT ![p] = Append(@, "Terminated")]
    /\ port' = IF port = p THEN PortFree ELSE port
    /\ lastOk' = None
    /\ last' = NoResult
    /\ UNCHANGED <<store, signalled, classifier, emitted, probing, spawning,
                   storing, spc, schild>>
    /\ UNCHANGED <<deeplink, logger>>

\* Another program takes or gives up the port.
external_bind ==
    /\ port = PortFree
    /\ port' = External
    /\ last' = NoResult
    /\ UNCHANGED <<store, proc, signalled, rx, classifier, emitted, probing,
                   spawning, storing, spc, schild, lastOk>>
    /\ UNCHANGED <<deeplink, logger>>

external_release ==
    /\ port = External
    /\ port' = PortFree
    /\ last' = NoResult
    /\ UNCHANGED <<store, proc, signalled, rx, classifier, emitted, probing,
                   spawning, storing, spc, schild, lastOk>>
    /\ UNCHANGED <<deeplink, logger>>

\* ======================================================================
\* Deep-link code pipeline
\* ======================================================================

\* The query string of a URL, as a sequence of tokens: a unit is one
\* character or one percent-escape of a value, a key token is a separator
\* followed by a key and "=" ("?code=" or "&code=").
Units == {"a", "7", "!", "%41", "é"}
KeyTokens == {"code=", "c%6Fde=", "state="}
Tokens == Units \cup KeyTokens

Schemes == {"gptme", "file"}

RECURSIVE SeqsUpTo(_, _)
SeqsUpTo(S, n) ==
    IF n = 0 THEN {<<>>}
    ELSE LET shorter == SeqsUpTo(S, n - 1)
         IN  shorter \cup {Append(q, x) : q \in shorter, x \in S}

Urls == [scheme : Schemes, query : SeqsUpTo(Tokens, MaxQuery)]

\* A forwarded command-line argument that Url::parse rejects.
NotAUrl == [scheme |-> "", query |-> <<>>]

\* percent_decode of one unit, as form_urlencoded::parse does for keys and
\* values.
percent_decode(u) == IF u = "%41" THEN "A" ELSE u

\* The decoded key of a key token.
KeyOf(k) == IF k = "state=" THEN "state" ELSE "code"

\* The units that follow position i up to the next key token.
RECURSIVE ValueFrom(_, _)
ValueFrom(q, i) ==
    IF i > Len(q) \/ q[i] \in KeyTokens THEN <<>>
    ELSE <<percent_decode(q[i])>> \o ValueFrom(q, i + 1)

\* url.query_pairs(): the (key, value) pairs of the query, decoded, in
\* order. Units before the first key token form a pair without "=", whose
\* key is that text and whose value is empty.
RECURSIVE PairsFrom(_, _)
PairsFrom(q, i) ==
    IF i > Len(q) THEN <<>>
    ELSE IF q[i] \in KeyTokens
         THEN <<[key |-> KeyOf(q[i]), value |-> ValueFrom(q, i + 1)]>>
              \o PairsFrom(q, i + 1)
         ELSE IF i = 1
              THEN <<[key |-> "text", value |-> <<>>]>> \o PairsFrom(q, i + 1)
              ELSE PairsFrom(q, i + 1)

query_pairs(u) == PairsFrom(u.query, 1)

\* .find(|(key, _)| key == "code"): the first pair whose key is "code".
RECURSIVE FindCode(_)
FindCode(pairs) ==
    IF pairs = <<>> THEN <<>>
    ELSE IF Head(pairs).key = "code" THEN <<Head(pairs).value>>
         ELSE FindCode(Tail(pairs))

\* char::is_ascii_alphanumeric
is_ascii_alphanumeric(c) == c \in {"a", "7", "A"}

\* The filter of line 165, without the test: every character is kept.
safe_code_unfiltered(code) == code

\* code.chars().filter(|c| c.is_ascii_alphanumeric()).collect()
RECURSIVE safe_code(_)
safe_code(code) ==
    IF code = <<>> THEN <<>>
    ELSE IF is_ascii_alphanumeric(Head(code))
         THEN <<Head(code)>> \o safe_code(Tail(code))
         ELSE safe_code(Tail(code))

\* The script of lines 177-180: the hash is set to "#code=" followed by the
\* sanitized code, then the page is reloaded.
Script(safe) == [hash |-> <<"#code=">> \o safe, reload |-> TRUE]

\* The body of the for loop that skips nothing and evaluates the script even
\* for an empty code.
handle_url_no_empty_check(u, w) ==
    LET found == FindCode(query_pairs(u))
    IN  IF found = <<>> \/ ~w THEN <<>>
        ELSE <<Script(safe_code(found[1]))>>

\* The body of the for loop of handle_deep_link_urls for one URL (lines
\* 155-186): the window.eval calls it makes.
handle_url(u, w) ==
    LET found == FindCode(query_pairs(u))
    IN  IF found = <<>> THEN <<>>
        ELSE IF safe_code(found[1]) = <<>> THEN <<>>
        ELSE IF ~w THEN <<>>
        ELSE <<Script(safe_code(found[1]))>>

\* How many items of the batch are left once one URL has been handled: the
\* `continue` of line 168 and the end of the loop body both go on to the
\* next URL.
LeftAfter(n, u) == n - 1

\* The single-instance callback keeps the arguments that parse as a URL and
\* whose scheme is "gptme" (lines 202-206); get_current and on_open_url pass
\* on whatever URLs the plugin hands them (lines 254-257 and 261-265).
Accepted(c, a) ==
    IF c = "single_instance" THEN a # NotAUrl /\ a.scheme = "gptme"
    ELSE TRUE

\* What a path can be handed: any argument string for the single-instance
\* callback, any parsed URL for the other two.
Items(c) == IF c = "single_instance" THEN Urls \cup {NotAUrl} ELSE Urls

NoEvals == <<>>

\* setup(): app.deep_link().get_current() yields Some(urls), or nothing.
launch_deep_link(n) ==
    /\ caller = "setup"
    /\ caller' = IF n = 0 THEN "none" ELSE "launch"
    /\ remaining' = n
    /\ url' = NotAUrl /\ reached' = FALSE /\ evals' = NoEvals
    /\ UNCHANGED window
    /\ UNCHANGED <<supervisor, logger>>

\* The on_open_url listener is called with the URLs of an open-URL event.
on_open_url(n) ==
    /\ caller = "none"
    /\ caller' = "open_url"
    /\ remaining' = n
    /\ url' = NotAUrl /\ reached' = FALSE /\ evals' = NoEvals
    /\ UNCHANGED window
    /\ UNCHANGED <<supervisor, logger>>

\* The single-instance callback is called with the argv of a second launch.
single_instance(n) ==
    /\ caller = "none"
    /\ caller' = "single_instance"
    /\ remaining' = n
    /\ url' = NotAUrl /\ reached' = FALSE /\ evals' = NoEvals
    /\ UNCHANGED window
    /\ UNCHANGED <<supervisor, logger>>

\* The next item of the batch: dropped by the caller's filter, or handled by
\* one iteration of the loop of handle_deep_link_urls.
next_item ==
    /\ caller \in {"launch", "open_url", "single_instance"}
    /\ remaining > 0
    /\ url = NotAUrl /\ ~reached
    /\ \E a \in Items(caller) :
         /\ url' = a
         /\ reached' = Accepted(caller, a)
         /\ evals' = IF Accepted(caller, a) THEN handle_url(a, window)
                     ELSE NoEvals
         /\ remaining' = IF Accepted(caller, a) THEN LeftAfter(remaining, a)
                         ELSE remaining - 1
    /\ UNCHANGED <<caller, window>>
    /\ UNCHANGED <<supervisor, logger>>

\* The iteration is over and the loop turns to the rest of the batch.
item_done ==
    /\ caller \in {"launch", "open_url", "single_instance"}
    /\ url # NotAUrl \/ reached
    /\ url' = NotAUrl /\ reached' = FALSE /\ evals' = NoEvals
    /\ UNCHANGED <<caller, remaining, window>>
    /\ UNCHANGED <<supervisor, logger>>

\* The batch is exhausted and the callback returns.
batch_done ==
    /\ caller \in {"launch", "open_url", "single_instance"}
    /\ remaining = 0
    /\ url = NotAUrl /\ ~reached
    /\ caller' = "none"
    /\ url' = NotAUrl /\ reached' = FALSE /\ evals' = NoEvals
    /\ UNCHANGED <<remaining, window>>
    /\ UNCHANGED <<supervisor, logger>>

InitDeepLink ==
    /\ caller = "setup"
    /\ remaining = 0
    /\ window \in BOOLEAN
    /\ url = NotAUrl
    /\ reached = FALSE
    /\ evals = NoEvals

\* ======================================================================
\* The output classifier, event by event
\* ======================================================================

\* The bytes of an output chunk: a letter, a blank, a line feed and a byte
\* that is not valid UTF-8.
Bytes == {"x", " ", "\n", "0xFF"}

\* TerminatedPayload.code
ExitCodes == {"0", "1"}

\* CommandEvent: Stdout(bytes), Stderr(bytes), Error(message),
\* Terminated(payload).
CommandEvents ==
    [kind : {"Stdout", "Stderr"}, data : SeqsUpTo(Bytes, MaxBytes)]
    \cup [kind : {"Error"}, data : {<<>>}]
    \cup [kind : {"Terminated"}, data : {<<c>> : c \in ExitCodes}]

RECURSIVE TotalBytes(_)
TotalBytes(events) ==
    IF events = <<>> THEN 0
    ELSE Len(Head(events).data) + TotalBytes(Tail(events))

\* String::from_utf8_lossy: an invalid byte becomes U+FFFD.
from_utf8_lossy(data) ==
    [i \in 1..Len(data) |-> IF data[i] = "0xFF" THEN "U+FFFD" ELSE data[i]]

\* Position of the first line feed of a string, 0 when it has none.
FirstNewline(str) ==
    IF \E i \in 1..Len(str) : str[i] = "\n"
    THEN CHOOSE i \in 1..Len(str) :
           str[i] = "\n" /\ \A j \in 1..(i - 1) : str[j] # "\n"
    ELSE 0

\* str::lines: the pieces between line feeds; a final line feed does not
\* open another line.
RECURSIVE lines(_)
lines(str) ==
    IF str = <<>> THEN <<>>
    ELSE IF FirstNewline(str) = 0 THEN <<str>>
    ELSE <<SubSeq(str, 1, FirstNewline(str) - 1)>>
         \o lines(SubSeq(str, FirstNewline(str) + 1, Len(str)))

\* char::is_whitespace
is_whitespace(c) == c \in {" ", "\n"}

RECURSIVE trim_start(_)
trim_start(line) ==
    IF line = <<>> THEN <<>>
    ELSE IF is_whitespace(Head(line)) THEN trim_start(Tail(line))
    ELSE line

RECURSIVE trim_end(_)
trim_end(line) ==
    IF line = <<>> THEN <<>>
    ELSE IF is_whitespace(line[Len(line)])
         THEN trim_end(SubSeq(line, 1, Len(line) - 1))
    ELSE line

\* A trim that leaves the line as it is.
trim_nothing(line) == line

\* str::trim
trim(line) == trim_end(trim_start(line))

\* The loop over output.lines() of lines 114-118 and 122-126: one record
\* per line that is not empty once trimmed.
RECURSIVE LineRecords(_, _)
LineRecords(level, ls) ==
    IF ls = <<>> THEN <<>>
    ELSE (IF trim(Head(ls)) # <<>>
          THEN <<[level |-> level, text |-> trim(Head(ls))]>>
          ELSE <<>>)
         \o LineRecords(level, Tail(ls))

\* The match of lines 111-143: the records one event makes the task write.
\* The log plugin passes every level from Info up.
Records(event) ==
    CASE event.kind = "Stdout" ->
           LineRecords("info", lines(from_utf8_lossy(event.data)))
      [] event.kind = "Stderr" ->
           LineRecords("warn", lines(from_utf8_lossy(event.data)))
      [] event.kind = "Error" ->
           <<[level |-> "error", text |-> <<"Process error">>]>>
      [] event.kind = "Terminated" ->
           <<[level |-> "warn",
              text |-> <<"Process terminated with code", event.data[1]>>]>>

\* The process whose classifier is followed: the first one spawned.
Watched == 1

\* A loop that goes on receiving after the termination event.
KeepsLoopingAfterTerminated == "running"

\* The `break` of line 140.
AfterTerminated == "done"

\* The plugin puts an event on the channel. Whether the receiver still
\* listens makes no difference to the sender.
plugin_send(e) ==
    /\ Len(sent) < MaxEvents
    /\ TotalBytes(sent) + Len(e.data) <= MaxBytes
    /\ sent' = Append(sent, e)
    /\ crx' = Append(crx, e)
    /\ UNCHANGED <<seen, log>>
    /\ UNCHANGED <<supervisor, deeplink>>

\* One iteration of `while let Some(event) = rx.recv().await` (lines
\* 110-144), with the records it writes.
classifier_event ==
    /\ classifier[Watched] = "running"
    /\ crx # <<>>
    /\ crx' = Tail(crx)
    /\ seen' = Append(seen, Head(crx))
    /\ log' = log \o Records(Head(crx))
    /\ UNCHANGED sent
    /\ IF Head(crx).kind = "Terminated"
       THEN /\ store' = ClearOnTerminated(Watched)
            /\ classifier' = [classifier EXCEPT ![Watched] = AfterTerminated]
            /\ lastOk' = None
       ELSE UNCHANGED <<store, classifier, lastOk>>
    /\ last' = NoResult
    /\ UNCHANGED <<proc, signalled, rx, port, emitted, probing, spawning,
                   storing, spc, schild>>
    /\ UNCHANGED deeplink

\* ------------------------------------------------------------------ system
\* setup(): the cell is created empty and the startup task is spawned.
InitSupervisor ==
    /\ store = None
    /\ proc = [p \in Procs |-> "none"]
    /\ signalled = [p \in Procs |-> 0]
    /\ rx = [p \in Procs |-> <<>>]
    /\ classifier = [p \in Procs |-> "none"]
    /\ port \in {PortFree, External}
    /\ emitted = 0
    /\ probing = 0
    /\ spawning = 0
    /\ storing = {}
    /\ spc = "probe"
    /\ schild = None
    /\ last = NoResult
    /\ lastOk = None

InitLogger ==
    /\ sent = <<>>
    /\ crx = <<>>
    /\ seen = <<>>
    /\ log = <<>>

Init == InitSupervisor /\ InitDeepLink /\ InitLogger

\* The supervisor is looked at with the main window present.
InitSupervisorOnly == Init /\ window = TRUE

Next ==
    \/ get_server_status
    \/ stop_server
    \/ start_server_check
    \/ start_server_probe
    \/ start_server_spawn
    \/ \E c \in Procs : start_server_store(c)
    \/ startup_probe
    \/ startup_spawn
    \/ startup_store
    \/ \E p \in Procs : classifier_recv(p)
    \/ window_close
    \/ \E p \in Procs : proc_output(p)
    \/ \E p \in Procs : proc_bind(p)
    \/ \E p \in Procs : proc_exit(p)
    \/ external_bind
    \/ external_release

vars == <<supervisor, deeplink, logger>>

\* The supervisor: commands, tasks and the processes they start.
Spec == InitSupervisorOnly /\ [][Next]_vars

\* The deep-link pipeline: the three callers and the batches they are given.
NextDeepLink ==
    \/ \E n \in 0..MaxBatch : launch_deep_link(n)
    \/ \E n \in 1..MaxBatch : on_open_url(n)
    \/ \E n \in 1..MaxBatch : single_instance(n)
    \/ next_item
    \/ item_done
    \/ batch_done


InitDeepLinkOnly == Init /\ port = PortFree

SpecDeepLink == InitDeepLinkOnly /\ [][NextDeepLink]_vars

\* The output classifier of the backend the startup task has spawned and
\* stored: the state after startup_store.
InitClassifier ==
    /\ store = Watched
    /\ proc = [p \in Procs |-> IF p = Watched THEN "alive" ELSE "none"]
    /\ signalled = [p \in Procs |-> 0]
    /\ rx = [p \in Procs |-> <<>>]
    /\ classifier = [p \in Procs |-> IF p = Watched THEN "running" ELSE "none"]
    /\ port = PortFree
    /\ emitted = 0
    /\ probing = 0
    /\ spawning = 0
    /\ storing = {}
    /\ spc = "started"
    /\ schild = None
    /\ last = NoResult
    /\ lastOk = None
    /\ InitDeepLink /\ window = TRUE
    /\ InitLogger

NextClassifier ==
    \/ \E e \in CommandEvents : plugin_send(e)
    \/ classifier_event

SpecClassifier == InitClassifier /\ [][NextClassifier]_vars

\* ======================================================================
\* Properties of the supervisor
\* ======================================================================

\* Handles that were spawned and not yet destroyed: neither taken and
\* signalled by stop_server or the close handler, nor observed terminated
\* by the classifier of their process.
Undestroyed ==
    {p \in Procs : proc[p] # "none" /\ signalled[p] = 0
                   /\ classifier[p] # "done"}

\* C1: at most one spawned and not yet destroyed backend handle exists at
\* any time, and it is the one in the Handle Store (or, until the write that
\* follows the spawn, the local of the Start that spawned it).
C1_ExclusiveHandle ==
    /\ Cardinality(Undestroyed) <= 1
    /\ \A p \in Undestroyed : store = p \/ p \in storing \/ schild = p

\* C2: a start_server call made after a successful start_server, with no
\* stop_server, window-close or termination event in between, does not pass
\* the already-running check; it returns AlreadyRunning, spawns no process,
\* starts no classifier, and the store still holds the handle the first call
\* stored.
C2_SecondStartAlreadyRunning ==
    [][lastOk # None =>
         /\ probing' <= probing
         /\ (last'.op = "start" /\ last'.res = "AlreadyRunning") =>
               /\ store' = lastOk
               /\ UNCHANGED <<proc, classifier, storing>>]_vars

\* A process whose Start has completed and for which no stop, window-close
\* or termination event has happened.
Supervised(p) ==
    classifier[p] # "none" /\ signalled[p] = 0 /\ proc[p] = "alive"

\* C3: from the completion of a successful Start until a stop, window-close
\* or termination event for the started process, get_server_status reports
\* running = true.
C3_RunningWhileSupervised ==
    \A p \in Procs : Supervised(p) => ServerStatus.running

\* C4: when the window-close handler has run, no backend process this
\* application spawned is left alive without having been sent a terminate
\* signal.
C4_CloseSignalsEveryProcess ==
    last.op = "close" =>
        \A p \in Procs : proc[p] = "alive" => signalled[p] > 0

\* C5 (as stated): right after start_server returns Ok(5700),
\* get_server_status reports running = true and port_available = false.
C5_StatusAfterStart ==
    (last.op = "start" /\ last.res = "Ok") =>
        /\ last.val = GPTME_SERVER_PORT
        /\ ServerStatus.running
        /\ ~ServerStatus.port_available

\* C5 (amended): after start_server returned Ok(5700), and until a
\* stop_server, a window close, a process exit or a classifier's termination
\* handling, get_server_status reports running = true and port 5700;
\* port_available is false exactly when some process has bound the port,
\* which the backend does only some time after the spawn.
C5_RunningAfterStart ==
    /\ (last.op = "start" /\ last.res = "Ok") =>
           last.val = GPTME_SERVER_PORT /\ lastOk = last.pid
    /\ lastOk # None =>
           /\ ServerStatus.running
           /\ ServerStatus.port = GPTME_SERVER_PORT
           /\ (port # PortFree => ~ServerStatus.port_available)
           /\ (port = PortFree => ServerStatus.port_available)

\* start_server has just returned Ok and the backend it spawned is already
\* bound to the port.
C5_Witness ==
    /\ last.op = "start" /\ last.res = "Ok"
    /\ lastOk # None /\ port = lastOk

\* C6: when the classifier handles the termination event of a backend that
\* exited without stop_server or the close handler having acted on it, then
\* right after that step get_server_status reports running = false and
\* port_available = true (no program that is not ours holding the port).
C6_StatusAfterCrash ==
    [][\A p \in Procs :
         (/\ classifier[p] = "running" /\ classifier'[p] = "done"
          /\ signalled[p] = 0
          /\ port' # External) =>
            (~ServerStatus'.running /\ ServerStatus'.port_available)]_vars

\* C7: stop_server called while the Handle Store is empty returns
\* NotRunning and changes nothing: the store stays empty, no process is
\* signalled, no classifier is started or ended.
C7_StopWhenEmpty ==
    [][(last'.op = "stop" /\ store = None) =>
         /\ last'.res = "NotRunning"
         /\ UNCHANGED <<store, proc, signalled, rx, classifier, port,
                        emitted, probing, spawning, storing, spc,
                        schild>>]_vars

\* stop_server has just returned NotRunning while a backend spawned earlier
\* is still alive.
C7_Witness ==
    /\ last.op = "stop" /\ last.res = "NotRunning"
    /\ \E p \in Procs : proc[p] = "alive"

\* C11: a Start whose probe finds port 5700 taken fails with PortInUse on
\* both paths: start_server returns the error and the invocation is over,
\* the startup task ends in its port-conflict branch and never leaves it;
\* neither spawns a process, writes the Handle Store, starts a classifier or
\* goes on to the spawn.
C11_PortInUse ==
    [][/\ (probing' < probing /\ port # PortFree) =>
            /\ last'.op = "start" /\ last'.res = "PortInUse"
            /\ InFlight' = InFlight - 1
            /\ UNCHANGED <<store, proc, classifier, rx, signalled, spawning,
                           storing, spc, schild>>
       /\ (spc = "probe" /\ spc' # "probe" /\ port # PortFree) =>
            /\ spc' = "port_conflict"
            /\ UNCHANGED <<store, proc, classifier, rx, signalled, probing,
                           spawning, storing, schild>>
       /\ spc = "port_conflict" => spc' = "port_conflict"]_vars

\* Both paths have failed on a taken port and nothing was spawned.
C11_Witness ==
    /\ last.op = "start" /\ last.res = "PortInUse"
    /\ spc = "port_conflict"
    /\ store = None
    /\ \A p \in Procs : proc[p] = "none" /\ classifier[p] = "none"

\* C12: stop_server called while the Handle Store holds a handle takes that
\* handle out and signals it exactly once; whether the signal succeeds (Ok)
\* or fails (the kill error is returned), the store is empty afterwards, so
\* a get_server_status that follows reports running = false and a
\* stop_server that follows returns NotRunning.
C12_StopTakesHandle ==
    [][/\ (last'.op = "stop" /\ store # None) =>
            /\ store' = None
            /\ signalled' = [signalled EXCEPT ![store] = @ + 1]
            /\ last'.res \in {"Ok", "KillError"}
            /\ last'.pid = store
       /\ (last.op = "stop" /\ last'.op = "status") =>
            ~last'.status.running
       /\ (last.op = "stop" /\ last'.op = "stop") =>
            last'.res = "NotRunning"]_vars

\* stop_server has just returned the kill error of a handle whose process
\* had already exited.
C12_Witness ==
    /\ last.op = "stop" /\ last.res = "KillError"
    /\ signalled[last.pid] = 1
    /\ store = None

\* C13: when the classifier of a process that stop_server already removed
\* and signalled handles that process's termination event, a handle of
\* another process stored by a later Start stays in the Handle Store.
C13_TerminationClearsOwnHandle ==
    [][\A p \in Procs :
         (/\ classifier[p] = "running" /\ classifier'[p] = "done"
          /\ signalled[p] > 0
          /\ store # p) =>
            store' = store]_vars

\* C14: at most one output classifier task is alive (spawned and still in
\* its event loop) at any time.
C14_OneClassifierAlive ==
    Cardinality({p \in Procs : classifier[p] = "running"}) <= 1

\* C15: however the close handler, stop_server and the classifier's
\* termination handling of one process are ordered, that process is sent the
\* terminate signal at most once; once any of them has acted on it the
\* Handle Store no longer holds its handle; and the one that runs when the
\* store is already empty changes nothing (the close handler only logs that
\* no process was found, the classifier's clear leaves the store empty).
C15_SignalAtMostOnce ==
    [][/\ \A p \in Procs :
            /\ signalled'[p] <= 1
            /\ (signalled'[p] > 0 \/ classifier'[p] = "done") => store' # p
            /\ (/\ classifier[p] = "running" /\ classifier'[p] = "done"
                /\ store = None) =>
                   UNCHANGED <<store, proc, signalled, port>>
       /\ (last'.op = "close" /\ store = None) =>
            /\ last'.res = "NoProcess"
            /\ UNCHANGED <<store, proc, signalled, rx, classifier,
                           port>>]_vars

\* The handle of a process was taken and signalled once, the classifier of
\* that process has handled its termination, and the close handler, run
\* last, found the store empty.
C15_Witness ==
    /\ last.op = "close" /\ last.res = "NoProcess"
    /\ store = None
    /\ \E p \in Procs :
          /\ signalled[p] = 1 /\ classifier[p] = "done"
          /\ \A q \in Procs \ {p} : proc[q] = "none"

\* C18: get_server_status always returns a value: port is the fixed port,
\* running tells whether the Handle Store holds a handle at that moment, and
\* port_available is the outcome of a probe made during the call; the call
\* leaves the store, the processes and their signals as they were and the
\* port bound by whoever held it before (the probe's listener is gone).
C18_StatusIsFreshAndPure ==
    [][last'.op = "status" =>
         /\ last'.res = "Ok"
         /\ last'.status.port = GPTME_SERVER_PORT
         /\ last'.status.running = (store # None)
         /\ last'.status.port_available = (port = PortFree)
         /\ UNCHANGED <<store, proc, signalled, rx, classifier, port,
                        probing, spawning, storing, spc, schild>>]_vars

\* A status taken while a handle is stored and the backend it belongs to
\* holds the port.
C18_Witness ==
    /\ last.op = "status"
    /\ last.status.running /\ ~last.status.port_available
    /\ store # None /\ port = store

\* The steps of the startup task, which runs once and never goes back.
StartupOnce ==
    {<<"probe", "port_conflict">>, <<"probe", "spawn">>,
     <<"spawn", "sidecar_panic">>, <<"spawn", "spawn_failed">>,
     <<"spawn", "store">>, <<"store", "started">>}

\* C19: nothing restarts the backend by itself. A process is spawned only by
\* the spawn step of a start_server invocation or of the one-time startup
\* task; a start_server invocation begins only with a caller's call, never
\* as part of a classifier's or a process's step; and an empty Handle Store
\* becomes non-empty only when such a Start stores the child it spawned.
C19_NoAutomaticRestart ==
    [][/\ \A p \in Procs :
            (proc[p] = "none" /\ proc'[p] # "none") =>
               \/ spawning' = spawning - 1 /\ p \in storing'
               \/ spc = "spawn" /\ spc' = "store" /\ schild' = p
       /\ InFlight' > InFlight =>
            /\ probing' = probing + 1
            /\ UNCHANGED <<store, proc, signalled, rx, classifier, spc>>
       /\ spc' # spc => <<spc, spc'>> \in StartupOnce
       /\ (store = None /\ store' # None) =>
            \/ store' \in storing /\ last'.op = "start" /\ last'.res = "Ok"
            \/ spc = "store" /\ spc' = "started" /\ store' = schild]_vars

\* A backend crashed, its classifier cleared the store, and a start_server
\* call has just stored another backend.
C19_Witness ==
    /\ last.op = "start" /\ last.res = "Ok" /\ store = last.pid
    /\ \E p \in Procs :
          /\ p # store
          /\ proc[p] = "dead" /\ signalled[p] = 0 /\ classifier[p] = "done"

\* C20: a Start whose spawn fails changes nothing. start_server returns its
\* spawn error (or its sidecar error) and the invocation is over; the
\* startup task ends there, logged, and is not run again; in both cases the
\* Handle Store, the processes, their signals, channels and classifiers are
\* as before, so a store that was empty is still empty, and a start_server
\* call is refused as AlreadyRunning only when the store holds a handle.
C20_SpawnFailure ==
    [][/\ (last'.op = "start"
           /\ last'.res \in {"SidecarError", "SpawnError"}) =>
            /\ InFlight' = InFlight - 1
            /\ UNCHANGED <<store, proc, signalled, rx, classifier, port,
                           storing, spc, schild>>
       /\ (spc = "spawn" /\ spc' \in {"sidecar_panic", "spawn_failed"}) =>
            UNCHANGED <<store, proc, signalled, rx, classifier, port,
                        probing, spawning, storing, schild>>
       /\ spc \in {"sidecar_panic", "spawn_failed"} => spc' = spc
       /\ (last'.op = "start" /\ last'.res = "AlreadyRunning") =>
            store # None]_vars

\* The spawn has failed on both paths and the store is empty, no process
\* and no classifier exists.
C20_Witness ==
    /\ last.op = "start" /\ last.res = "SpawnError"
    /\ spc = "spawn_failed"
    /\ store = None
    /\ \A p \in Procs : proc[p] = "none" /\ classifier[p] = "none"

\* ======================================================================
\* Properties of the deep-link pipeline
\* ======================================================================

\* The value of the `code` parameter the lookup finds in a URL: the value of
\* the first pair whose key is "code", as query_pairs yields it.
HasCode(u) == FindCode(query_pairs(u)) # <<>>
CodeValue(u) == FindCode(query_pairs(u))[1]

\* A value with every character that is not an ASCII letter or digit
\* removed.
Alphanumeric == {"a", "7", "A"}
IsAlphanumeric(c) == c \in Alphanumeric
StripNonAlphanumeric(v) == SelectSeq(v, IsAlphanumeric)

\* C8: for a URL that carries a `code` parameter, the fragment passed to the
\* UI delivery call is "#code=" followed by the parameter value with every
\* non-alphanumeric character removed, so it holds only alphanumeric
\* characters.
C8_SanitizedDelivery ==
    \A i \in 1..Len(evals) :
        /\ HasCode(url)
        /\ evals[i].hash = <<"#code=">> \o StripNonAlphanumeric(CodeValue(url))
        /\ \A j \in 2..Len(evals[i].hash) : evals[i].hash[j] \in Alphanumeric

\* A code whose value holds punctuation has been delivered.
C8_Witness ==
    /\ evals # <<>>
    /\ \E j \in 1..Len(CodeValue(url)) : CodeValue(url)[j] = "!"

\* C9: on every input path, only URLs whose scheme is "gptme" are passed to
\* handle_deep_link_urls, so a URL of any other scheme is dropped before
\* code extraction and causes no delivery call.
C9_OnlyRegisteredScheme ==
    (url # NotAUrl /\ url.scheme # "gptme") => evals = <<>>

\* C10: for each URL given to handle_deep_link_urls the delivery call is
\* made exactly once when the URL has a `code` parameter whose sanitized
\* value is not empty and the main window exists, and not at all otherwise;
\* whether the URL was delivered or skipped, the loop goes on with the rest
\* of the batch.
Deliverable(u) ==
    HasCode(u) /\ StripNonAlphanumeric(CodeValue(u)) # <<>>

C10_AtMostOncePerUrl ==
    [][(caller' = caller /\ reached') =>
         /\ Len(evals') = (IF Deliverable(url') /\ window' THEN 1 ELSE 0)
         /\ remaining' = remaining - 1]_vars

\* A URL whose code sanitizes to the empty string was skipped while more of
\* the batch is still to come.
C10_Witness ==
    /\ reached /\ HasCode(url) /\ CodeValue(url) # <<>>
    /\ ~Deliverable(url) /\ evals = <<>>
    /\ remaining > 0 /\ window

\* ======================================================================
\* Properties of the output classifier
\* ======================================================================

\* C16: the classifier matches the events of its channel in the order they
\* arrived (what it has matched is always the front part of what was sent),
\* and the termination event is the last event it ever matches: it writes one
\* warn record with the exit code, clears the Handle Store and is out of its
\* loop, so whatever follows the termination event on the channel stays
\* unread.
C16_StopsAtTermination ==
    /\ sent = seen \o crx
    /\ \A i \in 1..(Len(seen) - 1) : seen[i].kind # "Terminated"
    /\ (seen # <<>> /\ seen[Len(seen)].kind = "Terminated") =>
          /\ classifier[Watched] = "done"
          /\ store = None
          /\ log # <<>>
          /\ log[Len(log)].level = "warn"
          /\ log[Len(log)].text[2] = seen[Len(seen)].data[1]
    /\ classifier[Watched] = "done" =>
          seen # <<>> /\ seen[Len(seen)].kind = "Terminated"

\* The task has handled the termination event, and an error-output chunk
\* that arrived after it is still on the channel, unread and unlogged.
C16_Witness ==
    /\ classifier[Watched] = "done"
    /\ Len(seen) = 1 /\ Len(log) = 1
    /\ crx # <<>> /\ crx[1].kind = "Stderr" /\ crx[1].data # <<>>

\* A character that is not white space.
NonBlank(c) == c \notin {" ", "\n"}

\* Where the line that starts at position i of a text ends.
LineEnd(str, i) ==
    CHOOSE j \in (i - 1)..Len(str) :
      /\ \A k \in i..j : str[k] # "\n"
      /\ j = Len(str) \/ str[j + 1] = "\n"

\* The starts of the lines of a text that hold something else than white
\* space.
NonBlankLineStarts(str) ==
    {i \in 1..Len(str) :
       /\ i = 1 \/ str[i - 1] = "\n"
       /\ \E j \in i..LineEnd(str, i) : NonBlank(str[j])}

\* Such a line, from its first to its last character that is not white
\* space.
LineText(str, i) ==
    LET inside == {j \in i..LineEnd(str, i) : NonBlank(str[j])}
        first == CHOOSE j \in inside : \A k \in inside : j <= k
        final == CHOOSE j \in inside : \A k \in inside : j >= k
    IN  SubSeq(str, first, final)

RECURSIVE Ascending(_)
Ascending(S) ==
    IF S = {} THEN <<>>
    ELSE LET least == CHOOSE i \in S : \A k \in S : i <= k
         IN  <<least>> \o Ascending(S \ {least})

\* The records an output chunk calls for: one per line that is not blank,
\* in the order of the lines.
ChunkRecords(level, str) ==
    LET starts == Ascending(NonBlankLineStarts(str))
    IN  [k \in 1..Len(starts) |->
           [level |-> level, text |-> LineText(str, starts[k])]]

RECURSIVE ExpectedLog(_)
ExpectedLog(events) ==
    IF events = <<>> THEN <<>>
    ELSE LET e == Head(events)
         IN  (CASE e.kind = "Stdout" ->
                     ChunkRecords("info", from_utf8_lossy(e.data))
                [] e.kind = "Stderr" ->
                     ChunkRecords("warn", from_utf8_lossy(e.data))
                [] e.kind = "Error" ->
                     <<[level |-> "error", text |-> <<"Process error">>]>>
                [] e.kind = "Terminated" ->
                     <<[level |-> "warn",
                        text |-> <<"Process terminated with code",
                                   e.data[1]>>]>>)
             \o ExpectedLog(Tail(events))

\* C17: the records the classifier has written are exactly, in the order of
\* the events it received and of the lines within each chunk: one info
\* record for every line of a standard-output chunk that is not blank, one
\* warn record for every such line of an error-output chunk, one error record
\* for every error event (and the one warn record of the termination event);
\* empty and white-space-only lines give no record.
C17_LogRecords ==
    log = ExpectedLog(seen)

\* A standard-output chunk with a blank line before a line of text, then an
\* error event, have been classified: one info record and one error record.
C17_Witness ==
    /\ Len(seen) = 2
    /\ seen[1] = [kind |-> "Stdout", data |-> <<" ", "\n", "x">>]
    /\ seen[2].kind = "Error"
    /\ Len(log) = 2 /\ log[1] = [level |-> "info", text |-> <<"x">>]

====
